---- MODULE Spec2Model ----
(***************************************************************************)
(* Model of vcf2ics.py: the conversion of vCard contacts into a birthday   *)
(* calendar (one yearly all-day event with one alarm per contact that has  *)
(* a parsable BDAY), together with the pure helpers it is built from.      *)
(*                                                                         *)
(* Text is modelled as a sequence of one-character strings, so that string *)
(* concatenation, formatting and parsing are computed, not assumed.        *)
(***************************************************************************)
EXTENDS Integers, Sequences, FiniteSets, TLC

(***************************************************************************)
(* Characters and numbers                                                  *)
(***************************************************************************)
DigitChars == <<"0", "1", "2", "3", "4", "5", "6", "7", "8", "9">>

NonZeroDigits == {"1", "2", "3", "4", "5", "6", "7", "8", "9"}

IsDigit(c) == \E n \in 1..10 : DigitChars[n] = c

DigitVal(c) == CHOOSE n \in 0..9 : DigitChars[n + 1] = c

\* s[i], or a value that is no character when i is outside the string
At(s, i) == IF i >= 1 /\ i <= Len(s) THEN s[i] ELSE "EOF"

\* the decimal text of n on exactly w digits (Python's {:0wd} for 0 <= n < 10^w)
RECURSIVE Pad(_, _)
Pad(n, w) == IF w = 0 THEN <<>> ELSE Append(Pad(n \div 10, w - 1), DigitChars[(n % 10) + 1])

(***************************************************************************)
(* datetime.date                                                           *)
(***************************************************************************)
NoDate == [year |-> 0, month |-> 0, day |-> 0]

Date(y, m, d) == [year |-> y, month |-> m, day |-> d]

IsLeap(y) == (y % 4 = 0) /\ ((y % 100 # 0) \/ (y % 400 = 0))

DaysInMonth(y, m) ==
    IF m = 2 THEN (IF IsLeap(y) THEN 29 ELSE 28)
    ELSE IF m \in {4, 6, 9, 11} THEN 30 ELSE 31

\* what the date constructor accepts; anything else is a ValueError
ValidDate(y, m, d) ==
    /\ y >= 1 /\ y <= 9999
    /\ m >= 1 /\ m <= 12
    /\ d >= 1 /\ d <= DaysInMonth(y, m)

\* date.isoformat(): YYYY-MM-DD, zero padded
isoformat(dt) == Pad(dt.year, 4) \o <<"-">> \o Pad(dt.month, 2) \o <<"-">> \o Pad(dt.day, 2)

\* the end date without the day added
NextDay_same_day(dt) == dt

\* date + timedelta(days=1)
NextDay(dt) ==
    IF dt.day < DaysInMonth(dt.year, dt.month) THEN Date(dt.year, dt.month, dt.day + 1)
    ELSE IF dt.month < 12 THEN Date(dt.year, dt.month + 1, 1)
    ELSE Date(dt.year + 1, 1, 1)

(***************************************************************************)
(* datetime.strptime for the two formats of parse_birthday.  The format is *)
(* compiled to the regular expression                                      *)
(*   (\d\d\d\d)SEP(1[0-2]|0[1-9]|[1-9])SEP(3[01]|[12]\d|0[1-9]|[1-9]| [1-9])*)
(* (SEP is "-" or nothing), matched at the start of the string with the    *)
(* alternatives tried in order; text left after the match, and a month/day *)
(* the date constructor refuses, are a ValueError.                         *)
(***************************************************************************)
MonthAlternatives(s, i) ==
    (IF At(s, i) = "1" /\ At(s, i + 1) \in {"0", "1", "2"}
        THEN <<[val |-> 10 + DigitVal(s[i + 1]), next |-> i + 2]>> ELSE <<>>)
    \o (IF At(s, i) = "0" /\ At(s, i + 1) \in NonZeroDigits
        THEN <<[val |-> DigitVal(s[i + 1]), next |-> i + 2]>> ELSE <<>>)
    \o (IF At(s, i) \in NonZeroDigits
        THEN <<[val |-> DigitVal(s[i]), next |-> i + 1]>> ELSE <<>>)

DayAlternatives(s, i) ==
    (IF At(s, i) = "3" /\ At(s, i + 1) \in {"0", "1"}
        THEN <<[val |-> 30 + DigitVal(s[i + 1]), next |-> i + 2]>> ELSE <<>>)
    \o (IF At(s, i) \in {"1", "2"} /\ IsDigit(At(s, i + 1))
        THEN <<[val |-> 10 * DigitVal(s[i]) + DigitVal(s[i + 1]), next |-> i + 2]>> ELSE <<>>)
    \o (IF At(s, i) = "0" /\ At(s, i + 1) \in NonZeroDigits
        THEN <<[val |-> DigitVal(s[i + 1]), next |-> i + 2]>> ELSE <<>>)
    \o (IF At(s, i) \in NonZeroDigits
        THEN <<[val |-> DigitVal(s[i]), next |-> i + 1]>> ELSE <<>>)
    \o (IF At(s, i) = " " /\ At(s, i + 1) \in NonZeroDigits
        THEN <<[val |-> DigitVal(s[i + 1]), next |-> i + 2]>> ELSE <<>>)

\* the position after the separator at i, 0 when the separator is not there
AfterSep(s, i, dashed) ==
    IF ~dashed THEN i ELSE IF At(s, i) = "-" THEN i + 1 ELSE 0

\* the matches of month, separator, day from position i, in the order the
\* regular expression engine tries them
RECURSIVE MonthDayMatches(_, _, _)
MonthDayMatches(s, ms, dashed) ==
    IF ms = <<>> THEN <<>>
    ELSE LET p == AfterSep(s, Head(ms).next, dashed)
             ds == IF p = 0 THEN <<>> ELSE DayAlternatives(s, p)
         IN [j \in 1..Len(ds) |-> [month |-> Head(ms).val, day |-> ds[j].val, end |-> ds[j].next]]
            \o MonthDayMatches(s, Tail(ms), dashed)

\* datetime.strptime(value, fmt).date(), NoDate standing for ValueError;
\* dashed selects "%Y-%m-%d" (TRUE) or "%Y%m%d" (FALSE)
strptime(value, dashed) ==
    IF ~(\A k \in 1..4 : IsDigit(At(value, k))) THEN NoDate
    ELSE LET y == 1000 * DigitVal(value[1]) + 100 * DigitVal(value[2])
                  + 10 * DigitVal(value[3]) + DigitVal(value[4])
             p == AfterSep(value, 5, dashed)
             found == IF p = 0 THEN <<>>
                      ELSE MonthDayMatches(value, MonthAlternatives(value, p), dashed)
         IN IF found = <<>> THEN NoDate
            ELSE IF found[1].end # Len(value) + 1 THEN NoDate
            ELSE IF ~ValidDate(y, found[1].month, found[1].day) THEN NoDate
            ELSE Date(y, found[1].month, found[1].day)

\* the formats of parse_birthday, in the order they are tried
Formats == <<TRUE, FALSE>>

RECURSIVE FirstParse(_, _)
FirstParse(value, fmts) ==
    IF fmts = <<>> THEN NoDate
    ELSE IF strptime(value, Head(fmts)) # NoDate THEN strptime(value, Head(fmts))
    ELSE FirstParse(value, Tail(fmts))

parse_birthday(value) == FirstParse(value, Formats)

(***************************************************************************)
(* str.split(":"), str.strip() and int() as far as the reminder time needs *)
(* them: the text is cut at every ":", and int() accepts optional blanks   *)
(* around an optional sign followed by decimal digits.                     *)
(***************************************************************************)
RECURSIVE split(_, _)
split(s, sep) ==
    IF \A i \in 1..Len(s) : s[i] # sep THEN <<s>>
    ELSE LET i == CHOOSE k \in 1..Len(s) : s[k] = sep /\ \A j \in 1..(k - 1) : s[j] # sep
         IN <<SubSeq(s, 1, i - 1)>> \o split(SubSeq(s, i + 1, Len(s)), sep)

RECURSIVE strip(_)
strip(s) ==
    IF s = <<>> THEN s
    ELSE IF Head(s) = " " THEN strip(Tail(s))
    ELSE IF s[Len(s)] = " " THEN strip(SubSeq(s, 1, Len(s) - 1))
    ELSE s

RECURSIVE DecimalValue(_)
DecimalValue(ds) ==
    IF ds = <<>> THEN 0
    ELSE 10 * DecimalValue(SubSeq(ds, 1, Len(ds) - 1)) + DigitVal(ds[Len(ds)])

\* int(s): <<n>>, or <<>> for ValueError
int(s) ==
    LET t == strip(s)
        signed == t # <<>> /\ Head(t) \in {"+", "-"}
        ds == IF signed THEN Tail(t) ELSE t
    IN IF ds = <<>> \/ \E i \in 1..Len(ds) : ~IsDigit(ds[i]) THEN <<>>
       ELSE IF signed /\ Head(t) = "-" THEN <<0 - DecimalValue(ds)>>
       ELSE <<DecimalValue(ds)>>

\* reminder_hour, reminder_minute = map(int, args.reminder_time.split(":")):
\* <<hour, minute>>, or <<>> for the ValueError of int() or of the unpacking
parse_reminder_time(text) ==
    LET fields == split(text, ":")
    IN IF Len(fields) # 2 THEN <<>>
       ELSE IF int(fields[1]) = <<>> \/ int(fields[2]) = <<>> THEN <<>>
       ELSE <<int(fields[1])[1], int(fields[2])[1]>>

\* what the time constructor accepts; anything else is a ValueError
ValidTime(hour, minute) == hour \in 0..23 /\ minute \in 0..59

(***************************************************************************)
(* Identity of an event.  SHA-1 is not computed: the digest is kept as the *)
(* bytes it was taken over, that is, as a collision-free function of them. *)
(***************************************************************************)
sha1_hexdigest(bytes) == <<"sha1", bytes>>

make_uid(name, birthday) ==
    LET base == name \o <<"-">> \o isoformat(birthday)
    IN [prefix |-> "birthday-", digest |-> sha1_hexdigest(base), suffix |-> "@local"]

(***************************************************************************)
(* The embedded timezone definition                                        *)
(***************************************************************************)
TZID == "Europe/Berlin"

DateTime(dt, hour, minute) == [date |-> dt, hour |-> hour, minute |-> minute]

berlin_timezone ==
    [type |-> "VTIMEZONE",
     tzid |-> TZID,
     observances |->
        << [kind |-> "STANDARD",
            dtstart |-> DateTime(Date(1970, 10, 25), 3, 0),
            tzoffsetfrom |-> 2, tzoffsetto |-> 1, tzname |-> "CET"],
           [kind |-> "DAYLIGHT",
            dtstart |-> DateTime(Date(1970, 3, 29), 2, 0),
            tzoffsetfrom |-> 1, tzoffsetto |-> 2, tzname |-> "CEST"] >>]

(***************************************************************************)
(* One contact.  A card is                                                 *)
(*   [has_bday, bday, has_n, given, family]                                *)
(* where has_bday / has_n say whether the card holds a BDAY / an N line.   *)
(***************************************************************************)
Unknown == <<"U", "n", "k", "n", "o", "w", "n">>

SummaryPrefix == <<"G", "e", "b", "u", "r", "t", "s", "t", "a", "g", ":", " ">>

NonEmpty(text) == text # <<>>

RECURSIVE join(_, _)
join(sep, parts) ==
    IF parts = <<>> THEN <<>>
    ELSE IF Len(parts) = 1 THEN parts[1]
    ELSE parts[1] \o sep \o join(sep, Tail(parts))

\* " ".join(filter(None, [given, family])) or "Unknown"
display_name(given, family) ==
    LET joined == join(<<" ">>, SelectSeq(<<given, family>>, NonEmpty))
    IN IF joined = <<>> THEN Unknown ELSE joined

\* the event with its UID taken over the projected date instead of the birth date
BirthdayEvent_uid_of_event_date(name, birthday, today_year, hour, minute) ==
    LET event_date == Date(today_year, birthday.month, birthday.day)
    IN [type |-> "VEVENT",
        uid |-> make_uid(name, event_date),
        summary |-> SummaryPrefix \o name,
        description |-> [von |-> name, am |-> isoformat(birthday)],
        dtstart |-> event_date,
        dtend |-> NextDay(event_date),
        rrule |-> [freq |-> "yearly", interval |-> 1,
                   bymonth |-> birthday.month, bymonthday |-> birthday.day],
        alarms |-> << [action |-> "DISPLAY",
                       trigger |-> DateTime(event_date, hour, minute),
                       tzid |-> TZID] >>]

\* the event of one contact, for a birthday that projects onto today_year and
\* a reminder time the time constructor accepts
BirthdayEvent(name, birthday, today_year, hour, minute) ==
    LET event_date == Date(today_year, birthday.month, birthday.day)
    IN [type |-> "VEVENT",
        uid |-> make_uid(name, birthday),
        summary |-> SummaryPrefix \o name,
        description |-> [von |-> name, am |-> isoformat(birthday)],
        dtstart |-> event_date,
        dtend |-> NextDay(event_date),
        rrule |-> [freq |-> "yearly", interval |-> 1,
                   bymonth |-> birthday.month, bymonthday |-> birthday.day],
        alarms |-> << [action |-> "DISPLAY",
                       trigger |-> DateTime(event_date, hour, minute),
                       tzid |-> TZID] >>]

ErrNone == "none"
ErrReminderArg == "ValueError: reminder_time"
ErrOpen == "OSError: open"
ErrRead == "error while reading"
ErrNoName == "AttributeError: n"
ErrReplace == "ValueError: birthday.replace"
ErrTime == "ValueError: time"
ErrWrite == "OSError: write"

\* the body of the loop over the cards of a file: the card is skipped, or it
\* raises, or it yields one event
ProcessCard(card, today_year, reminder) ==
    IF ~card.has_bday THEN [status |-> "skip", events |-> <<>>]
    ELSE LET birthday == parse_birthday(card.bday)
         IN IF birthday = NoDate THEN [status |-> "skip", events |-> <<>>]
            ELSE IF ~card.has_n THEN [status |-> ErrNoName, events |-> <<>>]
            ELSE IF ~ValidDate(today_year, birthday.month, birthday.day)
                 THEN [status |-> ErrReplace, events |-> <<>>]
            ELSE IF ~ValidTime(reminder[1], reminder[2])
                 THEN [status |-> ErrTime, events |-> <<>>]
            ELSE [status |-> "event",
                  events |-> <<BirthdayEvent(display_name(card.given, card.family),
                                             birthday, today_year,
                                             reminder[1], reminder[2])>>]

\* the component put before those already there
add_component_first(calendar, component) ==
    [calendar EXCEPT !.components = <<component>> \o @]

\* Calendar.add_component: the component goes after those already there
add_component(calendar, component) ==
    [calendar EXCEPT !.components = Append(@, component)]

(***************************************************************************)
(* Inputs of a run                                                         *)
(***************************************************************************)
\* the most cards one run reads, over all its files
MaxCards == 3

\* the most input files on the command line (nargs="+": at least one)
MaxFiles == 2

Card(has_bday, bday, has_n, given, family) ==
    [has_bday |-> has_bday, bday |-> bday, has_n |-> has_n, given |-> given, family |-> family]

Ada == <<"A", "d", "a">>
Lovelace == <<"L", "o", "v", "e", "l", "a", "c", "e">>
AdaLovelace == Ada \o <<" ">> \o Lovelace

\* the cards a file may hold
Cards ==
    { Card(TRUE, <<"1", "8", "1", "5", "-", "1", "2", "-", "1", "0">>, TRUE, Ada, Lovelace),
      Card(TRUE, <<"1", "9", "9", "0", "-", "0", "7", "-", "1", "5">>, TRUE, <<"M", "a", "x">>, <<>>),
      Card(TRUE, <<"2", "0", "0", "0", "-", "0", "2", "-", "2", "9">>, TRUE, <<>>, <<"L", "e", "e">>),
      Card(TRUE, <<"1", "9", "8", "5", "0", "1", "0", "2">>, TRUE, <<>>, <<>>),
      Card(TRUE, <<"1", "9", "8", "5", "-", "0", "1", "-", "0", "2">>, FALSE, <<>>, <<>>),
      Card(TRUE, <<"1", "9", "9", "0", "-", "1", "3", "-", "4", "0">>, TRUE, <<"M", "a", "x">>, <<>>),
      Card(TRUE, <<>>, FALSE, <<>>, <<>>),
      Card(FALSE, <<>>, TRUE, Ada, Lovelace) }

\* the values of --reminder-time
ReminderArgs ==
    { <<"0", "9", ":", "0", "0">>,
      <<"2", "5", ":", "0", "0">>,
      <<"0", "9", ":", "6", "0">>,
      <<"0", "9", "0", "0">>,
      <<"9", "h", ":", "0", "0">> }

\* the years date.today() may fall in: a leap year and a common year
TodayYears == {2023, 2024}

(***************************************************************************)
(* The run of main()                                                       *)
(*   pc            where the run is: "args", "next_file", "in_file",       *)
(*                 "done", "aborted"                                       *)
(*   n_input       the number of paths given with -i                       *)
(*   reminder_time the text given with --reminder-time                     *)
(*   today_year    date.today().year                                       *)
(*   reminder      <<reminder_hour, reminder_minute>> once parsed          *)
(*   cal           the Calendar                                            *)
(*   file_idx      the index of the file the loop is at                    *)
(*   files         what became of each file so far: "open", "eof", "error" *)
(*   read          the cards read so far, each with the index of its file  *)
(*   output        the documents written                                   *)
(*   error         the exception that ended the run                        *)
(*   probe         the argument and result of a helper applied on its own  *)
(***************************************************************************)
VARIABLES pc, n_input, reminder_time, today_year, reminder, cal, file_idx, files, read,
          output, error, probe

vars == <<pc, n_input, reminder_time, today_year, reminder, cal, file_idx, files, read,
          output, error, probe>>

NoCalendar == [prodid |-> "", version |-> "", components |-> <<>>]

Init ==
    /\ pc = "args"
    /\ n_input \in 1..MaxFiles
    /\ reminder_time \in ReminderArgs
    /\ today_year \in TodayYears
    /\ reminder = <<>>
    /\ cal = NoCalendar
    /\ file_idx = 0
    /\ files = <<>>
    /\ read = <<>>
    /\ output = <<>>
    /\ error = ErrNone
    /\ probe = <<>>

\* lines 68-78: the reminder time is parsed, the calendar is created and gets
\* the timezone definition
ParseArgs ==
    /\ pc = "args"
    /\ IF parse_reminder_time(reminder_time) = <<>>
       THEN /\ error' = ErrReminderArg
            /\ pc' = "aborted"
            /\ UNCHANGED <<reminder, cal>>
       ELSE /\ reminder' = parse_reminder_time(reminder_time)
            /\ cal' = add_component([prodid |-> "-//VCF Birthday Calendar//EN",
                                     version |-> "2.0", components |-> <<>>],
                                    berlin_timezone)
            /\ pc' = "next_file"
            /\ UNCHANGED error
    /\ UNCHANGED <<n_input, reminder_time, today_year, file_idx, files, read, output, probe>>

\* line 81: the next file opens
OpenFile ==
    /\ pc = "next_file"
    /\ file_idx < n_input
    /\ file_idx' = file_idx + 1
    /\ files' = Append(files, "open")
    /\ pc' = "in_file"
    /\ UNCHANGED <<n_input, reminder_time, today_year, reminder, cal, read, output, error, probe>>

\* a file that does not open is passed over and the run goes on
OpenFileFails_skipped ==
    /\ pc = "next_file"
    /\ file_idx < n_input
    /\ file_idx' = file_idx + 1
    /\ files' = Append(files, "error")
    /\ UNCHANGED <<pc, error>>
    /\ UNCHANGED <<n_input, reminder_time, today_year, reminder, cal, read, output, probe>>

\* line 81: the next file does not open; the exception is not caught
OpenFileFails ==
    /\ pc = "next_file"
    /\ file_idx < n_input
    /\ file_idx' = file_idx + 1
    /\ files' = Append(files, "error")
    /\ error' = ErrOpen
    /\ pc' = "aborted"
    /\ UNCHANGED <<n_input, reminder_time, today_year, reminder, cal, read, output, probe>>

\* lines 82-134: readComponents yields one more card, and the card is processed
ReadCard ==
    /\ pc = "in_file"
    /\ Len(read) < MaxCards
    /\ \E card \in Cards :
         LET r == ProcessCard(card, today_year, reminder)
         IN /\ read' = Append(read, [file |-> file_idx, card |-> card])
            /\ IF r.status = "event"
               THEN /\ cal' = add_component(cal, r.events[1])
                    /\ UNCHANGED <<pc, error>>
               ELSE IF r.status = "skip"
               THEN UNCHANGED <<pc, error, cal>>
               ELSE /\ error' = r.status
                    /\ pc' = "aborted"
                    /\ UNCHANGED cal
    /\ UNCHANGED <<n_input, reminder_time, today_year, reminder, file_idx, files, output, probe>>

\* line 82: the file cannot be decoded or parsed further; the exception is not caught
ReadFails ==
    /\ pc = "in_file"
    /\ files' = [files EXCEPT ![file_idx] = "error"]
    /\ error' = ErrRead
    /\ pc' = "aborted"
    /\ UNCHANGED <<n_input, reminder_time, today_year, reminder, cal, file_idx, read, output, probe>>

\* line 82: the file holds no more cards
EndOfFile ==
    /\ pc = "in_file"
    /\ files' = [files EXCEPT ![file_idx] = "eof"]
    /\ pc' = "next_file"
    /\ UNCHANGED <<n_input, reminder_time, today_year, reminder, cal, file_idx, read, output, error, probe>>

\* lines 136-142: after the last file the calendar is serialised and written
WriteOutput ==
    /\ pc = "next_file"
    /\ file_idx = n_input
    /\ output' = Append(output, cal)
    /\ pc' = "done"
    /\ UNCHANGED <<n_input, reminder_time, today_year, reminder, cal, file_idx, files, read, error, probe>>

\* line 139: the output file cannot be written
WriteFails ==
    /\ pc = "next_file"
    /\ file_idx = n_input
    /\ error' = ErrWrite
    /\ pc' = "aborted"
    /\ UNCHANGED <<n_input, reminder_time, today_year, reminder, cal, file_idx, files, read, output, probe>>

Next ==
    \/ ParseArgs
    \/ OpenFile
    \/ OpenFileFails
    \/ ReadCard
    \/ ReadFails
    \/ EndOfFile
    \/ WriteOutput
    \/ WriteFails

Spec == Init /\ [][Next]_vars

(***************************************************************************)
(* What the properties below read from a state                             *)
(***************************************************************************)
IsEvent(component) == component.type = "VEVENT"

IsTimezone(component) == component.type = "VTIMEZONE"

Events(calendar) == SelectSeq(calendar.components, IsEvent)

\* a card that holds a BDAY which parse_birthday accepts
HasValidBirthday(entry) == entry.card.has_bday /\ parse_birthday(entry.card.bday) # NoDate

\* the cards read so far that hold a valid birth date, in reading order
Contributing == SelectSeq(read, HasValidBirthday)

CardErrors == {ErrNoName, ErrReplace, ErrTime}

\* a < b for two local date-times
Before(a, b) ==
    LET ka == <<a.date.year, a.date.month, a.date.day, a.hour, a.minute>>
        kb == <<b.date.year, b.date.month, b.date.day, b.hour, b.minute>>
    IN \E i \in 1..5 : ka[i] < kb[i] /\ \A j \in 1..(i - 1) : ka[j] = kb[j]

\* The offset a reader of the document applies to a local time under a
\* timezone component: that of the observance whose onset is the latest one not
\* after the local time.  An observance with no recurrence rule has the single
\* onset DTSTART.
ResolveOffset(tz, local) ==
    LET obs == tz.observances
        started == {i \in 1..Len(obs) : ~Before(local, obs[i].dtstart)}
        first == CHOOSE i \in 1..Len(obs) :
                    \A j \in 1..Len(obs) : ~Before(obs[j].dtstart, obs[i].dtstart)
        last == CHOOSE i \in started :
                    \A j \in started : ~Before(obs[i].dtstart, obs[j].dtstart)
    IN IF started = {} THEN obs[first].tzoffsetfrom ELSE obs[last].tzoffsetto

\* date.toordinal() and date.weekday() (Monday is 0, Sunday is 6)
RECURSIVE DaysBeforeMonth(_, _)
DaysBeforeMonth(y, m) == IF m = 1 THEN 0 ELSE DaysBeforeMonth(y, m - 1) + DaysInMonth(y, m - 1)

toordinal(dt) ==
    LET y == dt.year - 1
    IN y * 365 + (y \div 4) - (y \div 100) + (y \div 400) + DaysBeforeMonth(dt.year, dt.month) + dt.day

weekday(dt) == (toordinal(dt) + 6) % 7

\* the last Sunday of a month of 31 days
LastSunday(y, m) == CHOOSE d \in 25..31 : weekday(Date(y, m, d)) = 6

\* Central European summer time begins on the last Sunday of March at 02:00 and
\* ends on the last Sunday of October at 03:00, local time
SpringTransition(y) == DateTime(Date(y, 3, LastSunday(y, 3)), 2, 0)

AutumnTransition(y) == DateTime(Date(y, 10, LastSunday(y, 10)), 3, 0)

\* the day before dt
PrevDay(dt) ==
    IF dt.day > 1 THEN Date(dt.year, dt.month, dt.day - 1)
    ELSE IF dt.month > 1 THEN Date(dt.year, dt.month - 1, DaysInMonth(dt.year, dt.month - 1))
    ELSE Date(dt.year - 1, 12, 31)

\* the UTC time of a local time that is offset hours ahead of UTC (0 <= offset <= 24)
ToUtc(local, offset) ==
    IF local.hour >= offset THEN DateTime(local.date, local.hour - offset, local.minute)
    ELSE DateTime(PrevDay(local.date), local.hour + 24 - offset, local.minute)

\* the timezone component of a calendar that an alarm's TZID names
TimezoneOf(calendar, alarm) ==
    LET i == CHOOSE k \in 1..Len(calendar.components) :
                 IsTimezone(calendar.components[k]) /\ calendar.components[k].tzid = alarm.tzid
    IN calendar.components[i]

(***************************************************************************)
(* Properties of the run                                                   *)
(***************************************************************************)

\* C1: every contact with a valid birth date b gets, in every year of the run,
\* an event whose rule is yearly on (b.month, b.day) and whose DTSTART is that
\* month and day in the year of the run; projecting b onto that year never ends
\* the run.
C1_ProjectionNeverFails ==
    /\ error # ErrReplace
    /\ \A k \in 1..Len(Events(cal)) :
         k <= Len(Contributing) =>
            LET e == Events(cal)[k]
                b == parse_birthday(Contributing[k].card.bday)
            IN /\ e.rrule.freq = "yearly"
               /\ e.rrule.bymonth = b.month /\ e.rrule.bymonthday = b.day
               /\ e.dtstart = Date(today_year, b.month, b.day)

\* C2: the calendar holds as many events as cards with a valid birth date were
\* read, each event with exactly one alarm, and no card ends the run.
C2_OneEventPerValidBirthday ==
    /\ error \notin CardErrors
    /\ Len(Events(cal)) = Len(Contributing)
    /\ \A k \in 1..Len(Events(cal)) : Len(Events(cal)[k].alarms) = 1

\* End-to-end scenario 1: the run of year 2024 with reminder time 09:00 that
\* read the one card of Ada Lovelace, born 1815-12-10, and wrote its document
AdaCard == Card(TRUE, <<"1", "8", "1", "5", "-", "1", "2", "-", "1", "0">>, TRUE, Ada, Lovelace)

Scenario1 ==
    /\ pc = "done"
    /\ today_year = 2024
    /\ reminder_time = <<"0", "9", ":", "0", "0">>
    /\ Len(read) = 1 /\ read[1].card = AdaCard

AdaUidBase ==
    AdaLovelace \o <<"-", "1", "8", "1", "5", "-", "1", "2", "-", "1", "0">>

Scenario1Event(doc) ==
    /\ Len(Events(doc)) = 1
    /\ LET e == Events(doc)[1]
       IN /\ e.dtstart = Date(2024, 12, 10)
          /\ e.dtend = Date(2024, 12, 11)
          /\ e.rrule = [freq |-> "yearly", interval |-> 1, bymonth |-> 12, bymonthday |-> 10]
          /\ e.uid = [prefix |-> "birthday-", digest |-> sha1_hexdigest(AdaUidBase),
                      suffix |-> "@local"]
          /\ Len(e.alarms) = 1

C4_OffsetFollowsDst ==
    \A k \in 1..Len(Events(cal)) :
        LET a == Events(cal)[k].alarms[1]
            offset == ResolveOffset(TimezoneOf(cal, a), a.trigger)
            y == a.trigger.date.year
        IN /\ Before(a.trigger, SpringTransition(y)) => offset = 1
           /\ (~Before(a.trigger, SpringTransition(y)) /\ Before(a.trigger, AutumnTransition(y)))
                 => offset = 2

\* what C6 calls a malformed reminder time
MalformedReminderTime(text) ==
    \/ parse_reminder_time(text) = <<>>
    \/ parse_reminder_time(text)[1] \notin 0..23
    \/ parse_reminder_time(text)[2] \notin 0..59

\* C6: with a malformed reminder time the run ends with an error before any
\* file is opened, and no document is ever written.
C6_MalformedReminderFailsFast ==
    MalformedReminderTime(reminder_time) =>
        /\ output = <<>>
        /\ files = <<>>
        /\ pc \in {"args", "aborted"}

\* C7: the name of every event is not empty, and a card with a valid birth
\* date and no name never ends the run.
C7_NameFallsBack ==
    /\ error # ErrNoName
    /\ \A k \in 1..Len(Events(cal)) : Events(cal)[k].description.von # <<>>

\* the description the event of a card carries
ExpectedDescription(entry) ==
    [von |-> display_name(entry.card.given, entry.card.family),
     am |-> isoformat(parse_birthday(entry.card.bday))]

\* C8: every document written holds the timezone definition exactly once and
\* before every event, and its events are those of the cards with a valid birth
\* date in the order the cards were read.
C8_TimezoneFirstEventsInOrder ==
    \A d \in 1..Len(output) :
        LET cs == output[d].components
        IN /\ Len(SelectSeq(cs, IsTimezone)) = 1
           /\ \A i, j \in 1..Len(cs) : (IsTimezone(cs[i]) /\ IsEvent(cs[j])) => i < j
           /\ Len(Events(output[d])) = Len(Contributing)
           /\ \A k \in 1..Len(Contributing) :
                 Events(output[d])[k].description = ExpectedDescription(Contributing[k])
           /\ \A k \in 1..(Len(read) - 1) : read[k].file <= read[k + 1].file

C8_Witness ==
    /\ Len(output) = 1
    /\ Len(Events(output[1])) >= 2
    /\ Events(output[1])[1].description # Events(output[1])[2].description
    /\ Contributing[1].file < Contributing[2].file

\* C10: a document is written at most once and only when every file was opened
\* and read to its end; a file that fails is the last one the run touches, and
\* then nothing is written.
C10_AllOrNothing ==
    /\ Len(output) <= 1
    /\ output # <<>> => (Len(files) = n_input /\ \A i \in 1..Len(files) : files[i] = "eof")
    /\ \A i \in 1..Len(files) :
          files[i] = "error" => (i = Len(files) /\ output = <<>> /\ pc = "aborted")

C10_Witness ==
    /\ pc = "aborted"
    /\ Len(files) = 2 /\ files[1] = "eof" /\ files[2] = "error"
    /\ Len(Events(cal)) >= 1
    /\ output = <<>>

(***************************************************************************)
(* parse_birthday applied on its own to the texts a BDAY line may hold     *)
(***************************************************************************)
\* the month and day fields of the texts run from 0 to these
MaxMonthField == 13

MaxDayField == 32

\* the year fields of the texts
ProbeYears == {0, 999, 1990, 2000}

\* the decimal text of n without leading zeros, for 0 <= n < 100
Decimal(n) == IF n < 10 THEN Pad(n, 1) ELSE Pad(n, 2)

\* YYYYMMDD
compact(dt) == Pad(dt.year, 4) \o Pad(dt.month, 2) \o Pad(dt.day, 2)

BirthdayTexts ==
    LET fields == {Date(y, m, d) : y \in ProbeYears, m \in 0..MaxMonthField, d \in 0..MaxDayField}
    IN {<<>>}
       \cup {isoformat(f) : f \in fields}
       \cup {compact(f) : f \in fields}
       \cup {Pad(f.year, 4) \o <<"-">> \o Decimal(f.month) \o <<"-">> \o Decimal(f.day) : f \in fields}
       \cup {Pad(f.year, 4) \o Decimal(f.month) \o Decimal(f.day) : f \in fields}
       \cup {isoformat(f) \o <<"x">> : f \in fields}
       \cup {<<" ">> \o compact(f) : f \in fields}

\* the run of main() is not part of it
NoRun ==
    /\ pc = "probe"
    /\ n_input = 1
    /\ reminder_time = <<>>
    /\ today_year = 0
    /\ reminder = <<>>
    /\ cal = NoCalendar
    /\ file_idx = 0
    /\ files = <<>>
    /\ read = <<>>
    /\ output = <<>>
    /\ error = ErrNone

run_vars == <<pc, n_input, reminder_time, today_year, reminder, cal, file_idx, files, read,
              output, error>>

InitParse ==
    /\ NoRun
    /\ probe \in {[value |-> v, result |-> <<>>] : v \in BirthdayTexts}

ApplyParse ==
    /\ probe.result = <<>>
    /\ probe' = [probe EXCEPT !.result = <<parse_birthday(probe.value)>>]
    /\ UNCHANGED run_vars

SpecParse == InitParse /\ [][ApplyParse]_vars

\* the calendar dates whose encodings are among the texts
ProbeDates ==
    {dt \in {Date(y, m, d) : y \in ProbeYears, m \in 1..12, d \in 1..31} :
        ValidDate(dt.year, dt.month, dt.day)}

\* C9: parse_birthday returns d for the text YYYY-MM-DD of a calendar date d
\* and for its text YYYYMMDD, and returns no date for every other text.
C9_ParsesExactlyTheTwoEncodings ==
    probe.result # <<>> =>
        LET encoded == {dt \in ProbeDates : probe.value \in {isoformat(dt), compact(dt)}}
        IN IF encoded # {} THEN \A dt \in encoded : probe.result[1] = dt
           ELSE probe.result[1] = NoDate

(***************************************************************************)
(* The event of a contact built twice, in two runs                         *)
(***************************************************************************)
UidNames ==
    { <<"A">>, <<"A", "-", "1">>, AdaLovelace,
      <<"A", "-", "1", "9", "9", "0", "-", "0", "1", "-", "0", "1">> }

UidBirthdays == {Date(1990, 1, 1), Date(1990, 1, 11), Date(1990, 11, 1), Date(2000, 2, 29)}

UidReminders == {<<9, 0>>, <<18, 30>>}

\* a contact and the run that converts it
Conversions ==
    {c \in [name : UidNames, birthday : UidBirthdays, today_year : TodayYears,
            reminder : UidReminders] :
        ValidDate(c.today_year, c.birthday.month, c.birthday.day)}

InitUid ==
    /\ NoRun
    /\ probe \in {[a |-> a, b |-> b, result |-> <<>>] : a \in Conversions, b \in Conversions}

EventOf(c) == BirthdayEvent(c.name, c.birthday, c.today_year, c.reminder[1], c.reminder[2])

ApplyUid ==
    /\ probe.result = <<>>
    /\ probe' = [probe EXCEPT !.result = <<EventOf(probe.a), EventOf(probe.b)>>]
    /\ UNCHANGED run_vars

SpecUid == InitUid /\ [][ApplyUid]_vars

\* C5: the events of two contacts carry the same UID exactly when the contacts
\* have the same display name and the same birth date, whatever the year of the
\* run and the reminder time of either.
C5_UidOfNameAndBirthdayOnly ==
    probe.result # <<>> =>
        ((probe.a.name = probe.b.name /\ probe.a.birthday = probe.b.birthday)
            <=> probe.result[1].uid = probe.result[2].uid)

C5_Witness ==
    /\ probe.result # <<>>
    /\ probe.a.name = probe.b.name /\ probe.a.birthday = probe.b.birthday
    /\ probe.a.today_year # probe.b.today_year
    /\ probe.a.reminder # probe.b.reminder
    /\ probe.result[1].uid = probe.result[2].uid

====
